---------------------------- MODULE Spec2Model ----------------------------
(***************************************************************************)
(* Model of pipeline/validator.py: validate_and_clean_json and its helpers *)
(* generate_doc_id and trim_all_strings.                                   *)
(*                                                                         *)
(* JSON values are tagged records [t, v]; strings are sequences of         *)
(* one-character strings, so that str.strip(), os.path.basename() and      *)
(* strftime() are computed character by character.  One behaviour of the   *)
(* model is one call of validate_and_clean_json(data, source_filename);    *)
(* pc walks through the numbered stages of the function body.              *)
(***************************************************************************)
EXTENDS Integers, Sequences, FiniteSets, TLC

VARIABLES input, source_filename, data, cleaned_data, aliasing, report, pc, exc

vars == <<input, source_filename, data, cleaned_data, aliasing, report, pc, exc>>

\* Longest 'sections' list drawn for the input record.
MaxSections == 2

-----------------------------------------------------------------------------
(* JSON values (json.load): null, bool, number, string, list, dict.        *)

Null == [t |-> "null", v |-> <<>>]
Bool(b) == [t |-> "bool", v |-> b]
Num(n) == [t |-> "num", v |-> n]
Str(s) == [t |-> "str", v |-> s]
List(l) == [t |-> "list", v |-> l]
Map(m) == [t |-> "map", v |-> m]

EmptyMap == Map([k \in {} |-> Null])

\* Python truthiness, bool(x): None, False, 0, "", [] and {} are falsy.
Truthy(x) ==
    CASE x.t = "null" -> FALSE
      [] x.t = "bool" -> x.v
      [] x.t = "num" -> x.v # 0
      [] x.t = "str" -> Len(x.v) > 0
      [] x.t = "list" -> Len(x.v) > 0
      [] x.t = "map" -> DOMAIN x.v # {}

\* dict.get(key): the value, or None when the key is absent.
dict_get(d, key) == IF key \in DOMAIN d.v THEN d.v[key] ELSE Null

\* d[key] = value
dict_set(d, key, value) ==
    Map([k \in (DOMAIN d.v) \cup {key} |-> IF k = key THEN value ELSE d.v[k]])

-----------------------------------------------------------------------------
(* Strings.                                                                *)

\* The characters str.strip() removes (those of the model's alphabet).
Whitespace == {" ", "\t"}

RECURSIVE lstrip(_)
lstrip(s) ==
    IF s # <<>> /\ Head(s) \in Whitespace THEN lstrip(Tail(s)) ELSE s

RECURSIVE rstrip(_)
rstrip(s) ==
    IF s # <<>> /\ s[Len(s)] \in Whitespace
    THEN rstrip(SubSeq(s, 1, Len(s) - 1))
    ELSE s

\* str.strip(): leading and trailing whitespace removed, internal kept.
strip(s) == rstrip(lstrip(s))

-----------------------------------------------------------------------------
(* generate_doc_id.                                                        *)

\* os.path.basename (posix): what follows the last "/".
basename(filename) ==
    LET seps == {i \in 1..Len(filename) : filename[i] = "/"}
        last == CHOOSE i \in seps : \A j \in seps : j <= i
    IN IF seps = {} THEN filename ELSE SubSeq(filename, last + 1, Len(filename))

\* hashlib.sha256(b).hexdigest(): a digest, injective in the bytes hashed
\* (collision-resistance).  The digest holds no whitespace character.
sha256_hexdigest(bytes) == <<"#">> \o bytes

\* A plausible slip: the digest of the whole path.
generate_doc_id_full_path(filename) == Str(sha256_hexdigest(filename))

generate_doc_id(filename) == Str(sha256_hexdigest(basename(filename)))

-----------------------------------------------------------------------------
(* trim_all_strings.                                                       *)

\* A plausible slip: only leading whitespace removed.
RECURSIVE trim_all_strings_lstrip_only(_)
trim_all_strings_lstrip_only(d) ==
    CASE d.t = "map" ->
           Map([k \in DOMAIN d.v |-> trim_all_strings_lstrip_only(d.v[k])])
      [] d.t = "list" ->
           List([i \in 1..Len(d.v) |-> trim_all_strings_lstrip_only(d.v[i])])
      [] d.t = "str" -> Str(lstrip(d.v))
      [] OTHER -> d

\* dict -> rebuilt dict, list -> rebuilt list, str -> strip(), else as is.
RECURSIVE trim_all_strings(_)
trim_all_strings(d) ==
    CASE d.t = "map" -> Map([k \in DOMAIN d.v |-> trim_all_strings(d.v[k])])
      [] d.t = "list" -> List([i \in 1..Len(d.v) |-> trim_all_strings(d.v[i])])
      [] d.t = "str" -> Str(strip(d.v))
      [] OTHER -> d

-----------------------------------------------------------------------------
(* copy.deepcopy.  aliasing records whether the working record is made of  *)
(* the caller's own objects: "none" (every node is fresh) or "root" (it is  *)
(* the caller's object itself, so item assignment writes through).          *)

\* A plausible slip: no copy, the working record is the caller's object.
no_copy(d) == [value |-> d, aliasing |-> "root"]

deepcopy(d) == [value |-> d, aliasing |-> "none"]

-----------------------------------------------------------------------------
(* The report and its messages.                                            *)

Msg(kind, of) == [kind |-> kind, of |-> of]

new_report == [status |-> "success", warnings |-> <<>>, errors |-> <<>>]

REQUIRED_FIELDS == <<"title", "sections">>

\* Indices of the required fields the gate rejects: `not cleaned_data.get(field)`.
falsy_required(cleaned) ==
    {i \in 1..Len(REQUIRED_FIELDS) : ~Truthy(dict_get(cleaned, REQUIRED_FIELDS[i]))}

\* A plausible slip: no early return, every failing field is reported.
RECURSIVE all_missing_errors(_, _)
all_missing_errors(cleaned, i) ==
    IF i > Len(REQUIRED_FIELDS) THEN <<>>
    ELSE (IF i \in falsy_required(cleaned)
          THEN <<Msg("missing_required", REQUIRED_FIELDS[i])>> ELSE <<>>)
         \o all_missing_errors(cleaned, i + 1)

required_field_errors_all(cleaned) == all_missing_errors(cleaned, 1)

\* The loop of step 3: the error of the first failing field, if any.
required_field_errors(cleaned) ==
    LET bad == falsy_required(cleaned)
        first == CHOOSE i \in bad : \A j \in bad : i <= j
    IN IF bad = {} THEN <<>>
       ELSE <<Msg("missing_required", REQUIRED_FIELDS[first])>>

-----------------------------------------------------------------------------
(* dateutil.parser.parse and datetime.strftime("%Y-%m-%d").                 *)

DigitChars == <<"0", "1", "2", "3", "4", "5", "6", "7", "8", "9">>

Digit(n) == DigitChars[n + 1]

\* %Y-%m-%d of a date with a four-digit year.
strftime(date) ==
    << Digit(date.y \div 1000), Digit((date.y \div 100) % 10),
       Digit((date.y \div 10) % 10), Digit(date.y % 10), "-",
       Digit(date.m \div 10), Digit(date.m % 10), "-",
       Digit(date.d \div 10), Digit(date.d % 10) >>

March3 == <<"M", "a", "r", "c", "h", " ", "3", ",", " ", "2", "0", "2", "1">>
Iso0303 == <<"2", "0", "2", "1", "-", "0", "3", "-", "0", "3">>
NotADate == <<"n", "o", "t", " ", "a", " ", "d", "a", "t", "e">>

NoDate == [y |-> 0, m |-> 0, d |-> 0]

\* parse_date(x), the third-party parser, by its outcomes at the call site: a
\* date, TypeError for a value that is no string, ParserError for a string
\* it cannot read.  Both exceptions are caught by step 4.  (The library
\* also documents OverflowError for a year beyond the C int range; the
\* library is not part of the repository and that outcome is not modelled.)
parse_date(x) ==
    IF x.t # "str" THEN [exc |-> "TypeError", date |-> NoDate]
    ELSE LET s == strip(x.v) IN
         CASE s = March3 -> [exc |-> "none", date |-> [y |-> 2021, m |-> 3, d |-> 3]]
           [] s = Iso0303 -> [exc |-> "none", date |-> [y |-> 2021, m |-> 3, d |-> 3]]
           [] OTHER -> [exc |-> "ParserError", date |-> NoDate]

-----------------------------------------------------------------------------
(* Step 5: the 'sections' check.                                           *)

\* A plausible slip: the heading check also runs for a non-mapping element.
RECURSIVE section_warnings_no_continue(_, _)
section_warnings_no_continue(sections, i) ==
    IF i > Len(sections) THEN <<>>
    ELSE LET section == sections[i]
             w1 == IF section.t # "map"
                   THEN <<Msg("not_object", i - 1)>> ELSE <<>>
             w2 == IF section.t # "map" \/ ~Truthy(dict_get(section, "heading"))
                   THEN <<Msg("missing_heading", i - 1)>> ELSE <<>>
         IN w1 \o w2 \o section_warnings_no_continue(sections, i + 1)

\* The loop over enumerate(cleaned_data["sections"]), from element i on.
RECURSIVE section_warnings(_, _)
section_warnings(sections, i) ==
    IF i > Len(sections) THEN <<>>
    ELSE LET section == sections[i]
             w == IF section.t # "map"
                  THEN <<Msg("not_object", i - 1)>>
                  ELSE IF ~Truthy(dict_get(section, "heading"))
                       THEN <<Msg("missing_heading", i - 1)>>
                       ELSE <<>>
         IN w \o section_warnings(sections, i + 1)

\* A plausible slip: a defective element escalates to an error.
check_sections_escalating(rep, sections) ==
    IF sections.t = "list"
    THEN LET ws == section_warnings(sections.v, 1) IN
         IF ws = <<>> THEN rep
         ELSE [rep EXCEPT !.errors = @ \o ws, !.status = "error"]
    ELSE [rep EXCEPT !.errors = Append(@, Msg("sections_not_list", "sections")),
                     !.status = "error"]

\* Step 5 as a whole: the report after it.
check_sections(rep, sections) ==
    IF sections.t = "list"
    THEN [rep EXCEPT !.warnings =
              @ \o (IF ~Truthy(sections)
                    THEN <<Msg("sections_empty", "sections")>> ELSE <<>>)
                \o section_warnings(sections.v, 1)]
    ELSE [rep EXCEPT !.errors = Append(@, Msg("sections_not_list", "sections")),
                     !.status = "error"]

\* A plausible slip: the status is left as the earlier steps set it.
final_status_unchanged(rep) == rep.status

\* The final update: warnings turn "success" into "success_with_warnings".
final_status(rep) ==
    IF rep.warnings # <<>> /\ rep.status = "success"
    THEN "success_with_warnings"
    ELSE rep.status

-----------------------------------------------------------------------------
(* The inputs.                                                             *)

Absent == [t |-> "absent", v |-> <<>>]

TitleValues ==
    { Absent, Null, Bool(FALSE), Num(0), Num(5), Str(<<>>), Str(<<" ">>),
      Str(<<" ", "A", " ", "b", "\t">>), List(<<>>), EmptyMap }

DateValues ==
    { Absent, Null, Bool(FALSE), Num(0), Num(5), Str(<<>>), Str(<<" ", " ">>),
      List(<<>>), Str(<<" ">> \o March3 \o <<" ">>), Str(Iso0303),
      Str(NotADate), Map([k \in {"y"} |-> Num(2021)]) }

Heading(h) == Map([k \in {"heading"} |-> h])

SectionValues ==
    { Str(<<"x">>), EmptyMap, Heading(Str(<<" ">>)), Heading(Num(0)),
      Heading(Str(<<" ", "I", " ">>)) }

SectionLists ==
    UNION {[1..n -> SectionValues] : n \in 0..MaxSections}

SectionsValues ==
    { Absent, Null, Num(0), Str(<<"n", "o">>), Heading(Str(<<"I">>)) }
    \cup {List(l) : l \in SectionLists}

DocIdValues == { Absent, Str(<<"o", "l", "d", " ">>) }

Filenames ==
    { <<"d">>, <<"a", "/", "d">>, <<"/", "b", "/", "d">>, <<"a", "/", "e">>,
      <<"d", "/">> }

\* A mapping with the fields that are present.
Record(title, sections, date, docid) ==
    LET f == [k \in {"title", "sections", "pbac_meeting_date", "doc_id"} |->
                 CASE k = "title" -> title
                   [] k = "sections" -> sections
                   [] k = "pbac_meeting_date" -> date
                   [] k = "doc_id" -> docid]
        keys == {k \in DOMAIN f : f[k] # Absent}
    IN Map([k \in keys |-> f[k]])

MappingRoots ==
    { Record(ti, se, da, di) :
        ti \in TitleValues, se \in SectionsValues, da \in DateValues,
        di \in DocIdValues }

NonMappingRoots ==
    { Null, Bool(TRUE), Num(5), Str(<<" ", "x">>), List(<<>>),
      List(<<Heading(Str(<<"I">>))>>) }

Inputs == MappingRoots \cup NonMappingRoots

-----------------------------------------------------------------------------
(* validate_and_clean_json.                                                *)

Init ==
    /\ input \in Inputs
    /\ source_filename \in Filenames
    /\ data = input
    /\ cleaned_data = Null
    /\ aliasing = "none"
    /\ report = new_report
    /\ pc = "call"
    /\ exc = "none"

\* The caller's object after cleaned_data[...] = ... stored `after`.
write_through(after) == IF aliasing = "root" THEN after ELSE data

\* report = {...}; cleaned_data = deepcopy(data)
Begin ==
    /\ pc = "call"
    /\ LET c == deepcopy(data) IN
         /\ cleaned_data' = c.value
         /\ aliasing' = c.aliasing
    /\ report' = new_report
    /\ pc' = "identity"
    /\ UNCHANGED <<input, source_filename, data, exc>>

\* 1. cleaned_data["doc_id"] = generate_doc_id(source_filename)
\* Item assignment with a str key raises TypeError on anything but a dict.
IdentityAssignment ==
    /\ pc = "identity"
    /\ IF cleaned_data.t = "map"
       THEN LET after == dict_set(cleaned_data, "doc_id",
                                  generate_doc_id(source_filename)) IN
            /\ cleaned_data' = after
            /\ data' = write_through(after)
            /\ pc' = "clean"
            /\ exc' = exc
       ELSE /\ pc' = "raised"
            /\ exc' = "TypeError"
            /\ UNCHANGED <<cleaned_data, data>>
    /\ UNCHANGED <<input, source_filename, aliasing, report>>

\* 2. cleaned_data = trim_all_strings(cleaned_data): every container is rebuilt.
StructuralCleaner ==
    /\ pc = "clean"
    /\ cleaned_data' = trim_all_strings(cleaned_data)
    /\ aliasing' = "none"
    /\ pc' = "validate"
    /\ UNCHANGED <<input, source_filename, data, report, exc>>

\* 3. The required-field gate, with its early return.
RequiredFieldValidator ==
    /\ pc = "validate"
    /\ LET errs == required_field_errors(cleaned_data) IN
         IF errs # <<>>
         THEN /\ report' = [report EXCEPT !.errors = @ \o errs,
                                          !.status = "error"]
              /\ pc' = "returned"
         ELSE /\ report' = report
              /\ pc' = "normalize"
    /\ UNCHANGED <<input, source_filename, data, cleaned_data, aliasing, exc>>

\* 4. The date, when cleaned_data.get("pbac_meeting_date") is truthy.
DateNormalizer ==
    /\ pc = "normalize"
    /\ LET date_str == dict_get(cleaned_data, "pbac_meeting_date")
           parsed == parse_date(date_str)
       IN IF ~Truthy(date_str)
          THEN /\ pc' = "check"
               /\ UNCHANGED <<cleaned_data, data, report, exc>>
          ELSE IF parsed.exc = "none"
          THEN LET after == dict_set(cleaned_data, "pbac_meeting_date",
                                     Str(strftime(parsed.date))) IN
               /\ cleaned_data' = after
               /\ data' = write_through(after)
               /\ pc' = "check"
               /\ UNCHANGED <<report, exc>>
          ELSE LET after == dict_set(cleaned_data, "pbac_meeting_date", Null) IN
               /\ report' = [report EXCEPT !.warnings =
                                Append(@, Msg("date_unparsed", date_str))]
               /\ cleaned_data' = after
               /\ data' = write_through(after)
               /\ pc' = "check"
               /\ exc' = exc
    /\ UNCHANGED <<input, source_filename, aliasing>>

\* 5. The 'sections' check.
SectionIntegrityChecker ==
    /\ pc = "check"
    /\ report' = check_sections(report, cleaned_data.v["sections"])
    /\ pc' = "assemble"
    /\ UNCHANGED <<input, source_filename, data, cleaned_data, aliasing, exc>>

\* The final status update and the return.
ReportAssembler ==
    /\ pc = "assemble"
    /\ report' = [report EXCEPT !.status = final_status(report)]
    /\ pc' = "returned"
    /\ UNCHANGED <<input, source_filename, data, cleaned_data, aliasing, exc>>

Next ==
    \/ Begin
    \/ IdentityAssignment
    \/ StructuralCleaner
    \/ RequiredFieldValidator
    \/ DateNormalizer
    \/ SectionIntegrityChecker
    \/ ReportAssembler

Spec == Init /\ [][Next]_vars

-----------------------------------------------------------------------------
(* Vocabulary of the properties, stated on the input and on the result and  *)
(* not through the operators of the function body.                          *)

Returned == pc = "returned"

\* out is s without its leading and trailing whitespace.
IsStripOf(s, out) ==
    \E i \in 1..(Len(s) + 1), j \in 0..Len(s) :
        /\ out = SubSeq(s, i, j)
        /\ \A k \in 1..Len(s) : (k < i \/ k > j) => s[k] \in Whitespace
        /\ out # <<>> => (out[1] \notin Whitespace /\ out[Len(out)] \notin Whitespace)

\* out is orig with every string leaf stripped and nothing else changed.
RECURSIVE IsTrimmedCopy(_, _)
IsTrimmedCopy(orig, out) ==
    /\ orig.t = out.t
    /\ CASE orig.t = "map" ->
              /\ DOMAIN orig.v = DOMAIN out.v
              /\ \A k \in DOMAIN orig.v : IsTrimmedCopy(orig.v[k], out.v[k])
         [] orig.t = "list" ->
              /\ Len(orig.v) = Len(out.v)
              /\ \A i \in 1..Len(orig.v) : IsTrimmedCopy(orig.v[i], out.v[i])
         [] orig.t = "str" -> IsStripOf(orig.v, out.v)
         [] OTHER -> orig = out

\* Empty after whitespace trimming: null, the empty or whitespace-only
\* string, the empty sequence, the empty mapping; and the scalars false and
\* 0, which are no content either (the gate reports them as "Missing or
\* empty").
EmptyAfterTrim(x) ==
    \/ x \in {Null, Bool(FALSE), Num(0), List(<<>>), EmptyMap}
    \/ x.t = "str" /\ \A k \in 1..Len(x.v) : x.v[k] \in Whitespace

AbsentOrEmpty(rec, field) ==
    field \notin DOMAIN rec.v \/ EmptyAfterTrim(rec.v[field])

\* Indices of the required fields that are absent or empty in the input.
BadRequired ==
    {i \in 1..Len(REQUIRED_FIELDS) : AbsentOrEmpty(input, REQUIRED_FIELDS[i])}

FirstBadRequired == CHOOSE i \in BadRequired : \A j \in BadRequired : i <= j

Kinds(msgs) == {msgs[i].kind : i \in 1..Len(msgs)}

SectionWarningKinds == {"sections_empty", "not_object", "missing_heading"}

\* YYYY-MM-DD
IsCanonicalDate(x) ==
    /\ x.t = "str"
    /\ Len(x.v) = 10
    /\ \A i \in 1..10 :
          IF i \in {5, 8} THEN x.v[i] = "-"
          ELSE \E n \in 0..9 : x.v[i] = Digit(n)

\* The input's sections, when they are an ordered sequence.
InputSectionsIsList ==
    /\ input.t = "map"
    /\ "sections" \in DOMAIN input.v
    /\ input.v["sections"].t = "list"

\* A section element that is no mapping, or a mapping without a non-empty heading.
NotObject(section) == section.t # "map"

NoHeading(section) == section.t = "map" /\ AbsentOrEmpty(section, "heading")

-----------------------------------------------------------------------------
\* C1: in every returned report, status is "success" iff warnings and errors
\* are both empty, "success_with_warnings" iff errors is empty and warnings is
\* not, and "error" iff errors is non-empty, on the early return and on the
\* full run alike.
C1_StatusIsFunctionOfTallies ==
    Returned =>
        /\ report.status \in {"success", "success_with_warnings", "error"}
        /\ report.status = "success" <=>
               (report.warnings = <<>> /\ report.errors = <<>>)
        /\ report.status = "success_with_warnings" <=>
               (report.errors = <<>> /\ report.warnings # <<>>)
        /\ report.status = "error" <=> report.errors # <<>>

C1_Witness ==
    /\ Returned
    /\ report.status = "success_with_warnings"
    /\ Len(report.warnings) = 2

C3_EmptySectionsIsWarning ==
    ( /\ pc \in {"returned", "raised"}
      /\ InputSectionsIsList
      /\ input.v["sections"] = List(<<>>)
      /\ ~AbsentOrEmpty(input, "title") ) =>
        /\ Returned
        /\ report.status = "success_with_warnings"
        /\ report.errors = <<>>
        /\ "sections_empty" \in Kinds(report.warnings)

\* C4: no exception reaches the caller, whatever the input; a non-mapping root
\* returns status "error" with a missing-required-field error.
C4_NeverRaises ==
    /\ pc # "raised"
    /\ (Returned /\ input.t # "map") =>
          /\ report.status = "error"
          /\ "missing_required" \in Kinds(report.errors)

\* C5: when the gate is passed and the date field is present and not null,
\* the returned date is a canonical YYYY-MM-DD string, or null with a warning
\* describing the unparsed value.
C5_DateCanonicalOrNull ==
    ( /\ Returned
      /\ input.t = "map"
      /\ "missing_required" \notin Kinds(report.errors)
      /\ "pbac_meeting_date" \in DOMAIN input.v
      /\ input.v["pbac_meeting_date"] # Null ) =>
        LET out == cleaned_data.v["pbac_meeting_date"] IN
        \/ IsCanonicalDate(out)
        \/ /\ out = Null
           /\ \E i \in 1..Len(report.warnings) :
                 /\ report.warnings[i].kind = "date_unparsed"
                 /\ IsTrimmedCopy(input.v["pbac_meeting_date"],
                                  report.warnings[i].of)

\* C6: for a mapping record the returned status is "error" iff a required
\* field is absent or empty after cleaning or the sections value is no
\* ordered sequence; an unparseable date and defective section elements,
\* alone or together, leave errors empty and give "success_with_warnings".
C6_ErrorCause ==
    \/ BadRequired # {}
    \/ "sections" \in DOMAIN input.v /\ input.v["sections"].t # "list"

C6_SoftDefect ==
    \/ /\ ~AbsentOrEmpty(input, "pbac_meeting_date")
       /\ parse_date(input.v["pbac_meeting_date"]).exc # "none"
    \/ /\ InputSectionsIsList
       /\ \E k \in 1..Len(input.v["sections"].v) :
             NotObject(input.v["sections"].v[k]) \/ NoHeading(input.v["sections"].v[k])

C7_InputUntouched ==
    /\ data = input
    /\ Returned => aliasing = "none"

C7_Witness ==
    /\ Returned
    /\ report.status = "success"
    /\ "doc_id" \notin DOMAIN input.v
    /\ "pbac_meeting_date" \in DOMAIN input.v
    /\ input.v["pbac_meeting_date"] = Str(<<" ">> \o March3 \o <<" ">>)
    /\ cleaned_data.v["pbac_meeting_date"] = Str(Iso0303)
    /\ data = input

\* C8: the returned doc_id depends on the base name of source_filename alone:
\* a call with another filename yields the same doc_id iff the base names are
\* equal, whatever the record holds (a doc_id of the input is overwritten)
\* and on the early error return too.
C8_DocIdOfBaseNameAlone ==
    Returned =>
        /\ "doc_id" \in DOMAIN cleaned_data.v
        /\ \A other \in Filenames :
              (basename(other) = basename(source_filename))
                  <=> (generate_doc_id(other) = cleaned_data.v["doc_id"])

C8_Witness ==
    /\ Returned
    /\ report.status = "error"
    /\ "doc_id" \in DOMAIN input.v
    /\ source_filename = <<"/", "b", "/", "d">>
    /\ cleaned_data.v["doc_id"] = generate_doc_id(<<"d">>)

\* C9: once the gate is passed the stages run in the order date, sections,
\* status, with no other exit; in the report a date warning precedes every
\* section warning, section warnings come in ascending index, and each
\* element has at most one: "not a valid object" for a non-mapping, "missing
\* heading" for a mapping without a non-empty heading, none otherwise.
C9_ReportOrder ==
    LET w == report.warnings
        secs == input.v["sections"].v
        sw == {i \in 1..Len(w) : w[i].kind \in {"not_object", "missing_heading"}}
        defective == {k \in 1..Len(secs) : NotObject(secs[k]) \/ NoHeading(secs[k])}
    IN InputSectionsIsList =>
        /\ \A i, j \in 1..Len(w) :
              (w[i].kind = "date_unparsed" /\ w[j].kind \in SectionWarningKinds)
                  => i < j
        /\ \A i, j \in sw : i < j => w[i].of < w[j].of
        /\ \A k \in 1..Len(secs) :
              LET mine == {i \in sw : w[i].of = k - 1} IN
              IF NotObject(secs[k])
              THEN \E i \in sw : mine = {i} /\ w[i].kind = "not_object"
              ELSE IF NoHeading(secs[k])
              THEN \E i \in sw : mine = {i} /\ w[i].kind = "missing_heading"
              ELSE mine = {}
        /\ Cardinality(sw) = Cardinality(defective)

C10_AtMostOneError ==
    Returned =>
        /\ Len(report.errors) <= 1
        /\ report.status = "error" =>
              /\ Kinds(report.warnings) \cap SectionWarningKinds = {}
              /\ "missing_required" \in Kinds(report.errors)
                    => report.warnings = <<>>
              /\ "sections_not_list" \in Kinds(report.errors)
                    => /\ Len(report.warnings) <= 1
                       /\ Kinds(report.warnings) \subseteq {"date_unparsed"}

C10_Witness ==
    /\ Returned
    /\ Kinds(report.errors) = {"sections_not_list"}
    /\ Kinds(report.warnings) = {"date_unparsed"}

=============================================================================
